---- MODULE Spec2Model ----
(***************************************************************************)
(* Model of diagram-service.py: extract_resources and the cluster, node    *)
(* and edge passes of generate_diagram_from_terraform, run on one parsed   *)
(* Terraform document.  Python dicts are insertion-ordered mappings, every *)
(* warning printed is a diagnostic appended to `diagnostics`, `nodes[dep]  *)
(* >> nodes[resource_id]` appends an edge to `edges`, and an uncaught      *)
(* exception is recorded in `raised` and stops the run where it is.        *)
(***************************************************************************)
EXTENDS Integers, Sequences, FiniteSets, TLC

VARIABLES parsed_data, pc, cursor, raised, resources, diagnostics, clusters, nodes, edges

vars == <<parsed_data, pc, cursor, raised, resources, diagnostics, clusters, nodes, edges>>

(***************************************************************************)
(* Bounds of the documents explored.                                       *)
(***************************************************************************)
MaxBlocks == 2
MaxRefs == 2

(***************************************************************************)
(* RESOURCE_MAP: Terraform resource type -> <<node class, cluster name>>.  *)
(***************************************************************************)
RESOURCE_MAP ==
    [t \in {"aws_instance", "aws_lambda_function", "aws_ecs_cluster",
            "aws_autoscaling_group", "aws_ecr_repository", "aws_db_instance",
            "aws_dynamodb_table", "aws_redshift_cluster",
            "aws_elasticache_cluster", "aws_elb", "aws_alb", "aws_vpc",
            "aws_cloudfront_distribution", "aws_route53_zone", "aws_s3_bucket",
            "aws_efs_file_system", "aws_sqs_queue", "aws_sns_topic",
            "aws_iam_role", "aws_codebuild_project", "aws_cloudformation_stack"} |->
        CASE t = "aws_instance" -> <<"EC2", "Compute">>
          [] t = "aws_lambda_function" -> <<"Lambda", "Compute">>
          [] t = "aws_ecs_cluster" -> <<"ECS", "Compute">>
          [] t = "aws_autoscaling_group" -> <<"AutoScaling", "Compute">>
          [] t = "aws_ecr_repository" -> <<"ECR", "Containers">>
          [] t = "aws_db_instance" -> <<"RDS", "Database">>
          [] t = "aws_dynamodb_table" -> <<"Dynamodb", "Database">>
          [] t = "aws_redshift_cluster" -> <<"Redshift", "Database">>
          [] t = "aws_elasticache_cluster" -> <<"ElastiCache", "Database">>
          [] t = "aws_elb" -> <<"ELB", "Network">>
          [] t = "aws_alb" -> <<"ALB", "Network">>
          [] t = "aws_vpc" -> <<"VPC", "Network">>
          [] t = "aws_cloudfront_distribution" -> <<"CloudFront", "Content Delivery">>
          [] t = "aws_route53_zone" -> <<"Route53", "Network">>
          [] t = "aws_s3_bucket" -> <<"S3", "Storage">>
          [] t = "aws_efs_file_system" -> <<"EFS", "Storage">>
          [] t = "aws_sqs_queue" -> <<"SQS", "Integration">>
          [] t = "aws_sns_topic" -> <<"SNS", "Integration">>
          [] t = "aws_iam_role" -> <<"IAM", "Security">>
          [] t = "aws_codebuild_project" -> <<"Codebuild", "DevOps">>
          [] t = "aws_cloudformation_stack" -> <<"Cloudformation", "Management">>]

(***************************************************************************)
(* Parsed values.  A value is tagged with its Python kind: isinstance(v,   *)
(* dict) is v.kind = "dict", isinstance(v, list) is v.kind = "list".  A    *)
(* dict is the sequence of its items in insertion order, keys distinct.    *)
(***************************************************************************)
PyNone == [kind |-> "none"]
PyStr(s) == [kind |-> "str", s |-> s]
PyInt(n) == [kind |-> "int", n |-> n]
PyList(xs) == [kind |-> "list", items |-> xs]
PyDict(kvs) == [kind |-> "dict", items |-> kvs]

IsDict(v) == v.kind = "dict"
IsList(v) == v.kind = "list"

\* bool(v), Python's truth value of v
Truthy(v) ==
    CASE v.kind = "none" -> FALSE
      [] v.kind = "str" -> v.s # ""
      [] v.kind = "int" -> v.n # 0
      [] OTHER -> v.items # <<>>

\* d.get(key, default) on a dict value
Get(d, key, default) ==
    IF \E i \in DOMAIN d.items : d.items[i].k = key
    THEN d.items[CHOOSE i \in DOMAIN d.items : d.items[i].k = key].v
    ELSE default

(***************************************************************************)
(* The documents explored.                                                 *)
(***************************************************************************)
SeqsUpTo(S, n) == UNION {[1..k -> S] : k \in 0..n}

DistinctKeys(items) == \A i, j \in DOMAIN items : items[i].k = items[j].k => i = j

DictsOver(K, V, n) == {PyDict(kvs) : kvs \in {s \in SeqsUpTo([k : K, v : V], n) : DistinctKeys(s)}}

Types == {"aws_instance", "aws_s3_bucket", "unknown_widget"}
Names == {"web", "assets"}
Refs == {"aws_instance.web", "aws_s3_bucket.assets"}

\* values of a depends_on attribute that are not lists
NonListDeps ==
    {PyNone, PyStr(""), PyStr("aws_s3_bucket.assets"), PyInt(0),
     PyDict(<<>>), PyDict(<<[k |-> "aws_s3_bucket", v |-> PyStr("assets")]>>)}

\* a document whose 'resource' value is v
Document(v) == PyDict(<<[k |-> "resource", v |-> v]>>)

\* Documents that vary the shape at every nesting level.  A block of the
\* resource list declares at most one type with at most one name, as the parser
\* emits it; a merged mapping holds several names under a type.
ShapeConfigs == {PyStr("oops"), PyDict(<<>>)}
BlockInstances == {PyStr("oops")} \cup DictsOver(Names, ShapeConfigs, 1)
ShapeBlocks == {PyStr("oops")} \cup DictsOver(Types, BlockInstances, 1)
MergedInstances == {PyStr("oops")} \cup DictsOver(Names, ShapeConfigs, Cardinality(Names))

\* Well-formed list documents whose configs vary the depends_on attribute:
\* every kind of value on aws_instance.web, none or one reference on
\* aws_s3_bucket.assets.
DependsOn(v) == PyDict(<<[k |-> "depends_on", v |-> v]>>)
Block(type, name, config) == PyDict(<<[k |-> type, v |-> PyDict(<<[k |-> name, v |-> config]>>)]>>)
DepConfigs ==
    {PyDict(<<>>)}
    \cup {DependsOn(PyList(rs)) : rs \in SeqsUpTo(Refs, MaxRefs)}
    \cup {DependsOn(d) : d \in NonListDeps}
PlainConfigs == {PyDict(<<>>), DependsOn(PyList(<<"aws_instance.web">>))}
DepBlocks ==
    {Block("aws_instance", "web", c) : c \in DepConfigs}
    \cup {Block("aws_s3_bucket", "assets", c) : c \in PlainConfigs}

(***************************************************************************)
(* Insertion-ordered mappings (Python dict): `keys` in insertion order,    *)
(* `val` the mapping.  Assigning to an existing key keeps its position.    *)
(***************************************************************************)
EmptyMap == [keys |-> <<>>, val |-> [x \in {} |-> 0]]

Has(d, key) == key \in DOMAIN d.val

SetItem(d, key, value) ==
    [keys |-> IF Has(d, key) THEN d.keys ELSE Append(d.keys, key),
     val |-> [x \in DOMAIN d.val \cup {key} |-> IF x = key THEN value ELSE d.val[x]]]

(***************************************************************************)
(* extract_resources                                                       *)
(***************************************************************************)
Diag(kind, type, id, dep) == [kind |-> kind, type |-> type, id |-> id, dep |-> dep]

\* a variant that joins the name before the type
ResourceIdNameFirst(resource_type, resource_name) == resource_name \o "." \o resource_type

\* resource_id = f"{resource_type}.{resource_name}"
ResourceId(resource_type, resource_name) == resource_type \o "." \o resource_name

\* a variant without the default: parsed_data.get("resource")
ResourcesDataNoDefault(data) == Get(data, "resource", PyNone)

\* parsed_data.get("resource", [])
ResourcesData(data) == Get(data, "resource", PyList(<<>>))

\* a variant that skips an unregistered type without a warning
ExtractEntrySilent(acc, resource_type, resource_name, resource_config) ==
    LET resource_id == ResourceId(resource_type, resource_name) IN
    IF resource_type \in DOMAIN RESOURCE_MAP
    THEN [acc EXCEPT !.resources =
             SetItem(@, resource_id,
                     [type |-> resource_type,
                      name |-> resource_name,
                      config |-> resource_config,
                      node_class |-> RESOURCE_MAP[resource_type][1],
                      cluster |-> RESOURCE_MAP[resource_type][2]])]
    ELSE acc

\* a variant that keeps the first record of an id: resources.setdefault(...)
ExtractEntryKeepFirst(acc, resource_type, resource_name, resource_config) ==
    LET resource_id == ResourceId(resource_type, resource_name) IN
    IF resource_type \in DOMAIN RESOURCE_MAP
    THEN IF Has(acc.resources, resource_id) THEN acc
         ELSE [acc EXCEPT !.resources =
                  SetItem(@, resource_id,
                          [type |-> resource_type,
                           name |-> resource_name,
                           config |-> resource_config,
                           node_class |-> RESOURCE_MAP[resource_type][1],
                           cluster |-> RESOURCE_MAP[resource_type][2]])]
    ELSE [acc EXCEPT !.diagnostics =
             Append(@, Diag("no_mapping", resource_type, resource_id, ""))]

\* The body of the innermost loop: one (type, name, config) triple.
\* acc = [resources, diagnostics].
ExtractEntry(acc, resource_type, resource_name, resource_config) ==
    LET resource_id == ResourceId(resource_type, resource_name) IN
    IF resource_type \in DOMAIN RESOURCE_MAP
    THEN [acc EXCEPT !.resources =
             SetItem(@, resource_id,
                     [type |-> resource_type,
                      name |-> resource_name,
                      config |-> resource_config,
                      node_class |-> RESOURCE_MAP[resource_type][1],
                      cluster |-> RESOURCE_MAP[resource_type][2]])]
    ELSE [acc EXCEPT !.diagnostics =
             Append(@, Diag("no_mapping", resource_type, resource_id, ""))]

\* for resource_name, resource_config in instances.items()
RECURSIVE ExtractInstances(_, _, _, _)
ExtractInstances(acc, resource_type, items, n) ==
    IF n > Len(items) THEN acc
    ELSE ExtractInstances(ExtractEntry(acc, resource_type, items[n].k, items[n].v),
                          resource_type, items, n + 1)

\* for resource_type, instances in resource_block.items(), list branch
RECURSIVE ExtractBlock(_, _, _)
ExtractBlock(acc, items, n) ==
    IF n > Len(items) THEN acc
    ELSE LET resource_type == items[n].k
             instances == items[n].v
         IN ExtractBlock(
                IF IsDict(instances)
                THEN ExtractInstances(acc, resource_type, instances.items, 1)
                ELSE [acc EXCEPT !.diagnostics =
                         Append(@, Diag("instances_not_dict", resource_type, "", ""))],
                items, n + 1)

Init ==
    /\ \/ parsed_data \in {PyDict(<<>>), Document(PyNone), Document(PyStr("oops"))}
       \/ \E n \in 0..MaxBlocks : \E bs \in [1..n -> ShapeBlocks] :
              parsed_data = Document(PyList(bs))
       \/ \E m \in DictsOver(Types, MergedInstances, MaxBlocks) :
              parsed_data = Document(m)
       \/ \E n \in 0..MaxBlocks : \E bs \in [1..n -> DepBlocks] :
              parsed_data = Document(PyList(bs))
    /\ pc = "extract"
    /\ cursor = 1
    /\ raised = ""
    /\ resources = EmptyMap
    /\ diagnostics = <<>>
    /\ clusters = EmptyMap
    /\ nodes = [x \in {} |-> 0]
    /\ edges = <<>>

\* One iteration of `for resource_block in resources_data`.
ExtractListBlock ==
    /\ pc = "extract" /\ raised = ""
    /\ IsList(ResourcesData(parsed_data))
    /\ cursor <= Len(ResourcesData(parsed_data).items)
    /\ LET resource_block == ResourcesData(parsed_data).items[cursor]
           acc == [resources |-> resources, diagnostics |-> diagnostics]
           out == IF IsDict(resource_block)
                  THEN ExtractBlock(acc, resource_block.items, 1)
                  ELSE [acc EXCEPT !.diagnostics =
                           Append(@, Diag("block_not_dict", "", "", ""))]
       IN /\ resources' = out.resources
          /\ diagnostics' = out.diagnostics
    /\ cursor' = cursor + 1
    /\ UNCHANGED <<parsed_data, pc, raised, clusters, nodes, edges>>

\* One iteration of `for resource_type, instances in resources_data.items()`
\* of the fallback branch; instances.items() raises when instances is no dict.
ExtractMergedType ==
    /\ pc = "extract" /\ raised = ""
    /\ IsDict(ResourcesData(parsed_data))
    /\ cursor <= Len(ResourcesData(parsed_data).items)
    /\ LET resource_type == ResourcesData(parsed_data).items[cursor].k
           instances == ResourcesData(parsed_data).items[cursor].v
           acc == [resources |-> resources, diagnostics |-> diagnostics]
           out == ExtractInstances(acc, resource_type, instances.items, 1)
       IN IF IsDict(instances)
          THEN /\ resources' = out.resources
               /\ diagnostics' = out.diagnostics
               /\ cursor' = cursor + 1
               /\ raised' = raised
          ELSE /\ raised' = "AttributeError: items"
               /\ UNCHANGED <<resources, diagnostics, cursor>>
    /\ UNCHANGED <<parsed_data, pc, clusters, nodes, edges>>

\* The else branch: 'resource' is neither a list nor a dict.
ExtractUnexpected ==
    /\ pc = "extract" /\ raised = ""
    /\ ~IsList(ResourcesData(parsed_data))
    /\ ~IsDict(ResourcesData(parsed_data))
    /\ diagnostics' = Append(diagnostics, Diag("unexpected_structure", "", "", ""))
    /\ pc' = "group"
    /\ cursor' = 1
    /\ UNCHANGED <<parsed_data, raised, resources, clusters, nodes, edges>>

\* return resources, after the loop of either branch
ExtractReturn ==
    /\ pc = "extract" /\ raised = ""
    /\ IsList(ResourcesData(parsed_data)) \/ IsDict(ResourcesData(parsed_data))
    /\ cursor > Len(ResourcesData(parsed_data).items)
    /\ pc' = "group"
    /\ cursor' = 1
    /\ UNCHANGED <<parsed_data, raised, resources, diagnostics, clusters, nodes, edges>>

(***************************************************************************)
(* generate_diagram_from_terraform, after extract_resources                *)
(***************************************************************************)
\* a variant that replaces the member list: clusters[cluster_name] = [resource_id]
SetDefaultAssign(d, cluster_name, resource_id) == SetItem(d, cluster_name, <<resource_id>>)

\* a variant that inserts at the front: clusters.setdefault(...).insert(0, resource_id)
SetDefaultInsertFirst(d, cluster_name, resource_id) ==
    SetItem(d, cluster_name,
            <<resource_id>> \o (IF Has(d, cluster_name) THEN d.val[cluster_name] ELSE <<>>))

\* clusters.setdefault(cluster_name, []).append(resource_id)
SetDefaultAppend(d, cluster_name, resource_id) ==
    SetItem(d, cluster_name,
            Append(IF Has(d, cluster_name) THEN d.val[cluster_name] ELSE <<>>, resource_id))

\* One iteration of `for resource_id, resource in resources.items()` of the
\* grouping loop.
GroupResource ==
    /\ pc = "group" /\ raised = ""
    /\ cursor <= Len(resources.keys)
    /\ LET resource_id == resources.keys[cursor]
           resource == resources.val[resource_id]
       IN clusters' = SetDefaultAppend(clusters, resource.cluster, resource_id)
    /\ cursor' = cursor + 1
    /\ UNCHANGED <<parsed_data, pc, raised, resources, diagnostics, nodes, edges>>

GroupDone ==
    /\ pc = "group" /\ raised = ""
    /\ cursor > Len(resources.keys)
    /\ pc' = "nodes"
    /\ cursor' = 1
    /\ UNCHANGED <<parsed_data, raised, resources, diagnostics, clusters, nodes, edges>>

\* nodes[res_id] = resource["node_class"](resource["name"]) for res_id in ids
RECURSIVE CreateNodes(_, _, _, _)
CreateNodes(ns, cluster_name, resource_ids, n) ==
    IF n > Len(resource_ids) THEN ns
    ELSE LET res_id == resource_ids[n]
             resource == resources.val[res_id]
             node == [node_class |-> resource.node_class,
                      label |-> resource.name,
                      cluster |-> cluster_name]
         IN CreateNodes([x \in DOMAIN ns \cup {res_id} |-> IF x = res_id THEN node ELSE ns[x]],
                        cluster_name, resource_ids, n + 1)

\* One iteration of `for cluster_name, resource_ids in clusters.items()`.
CreateClusterNodes ==
    /\ pc = "nodes" /\ raised = ""
    /\ cursor <= Len(clusters.keys)
    /\ LET cluster_name == clusters.keys[cursor]
       IN nodes' = CreateNodes(nodes, cluster_name, clusters.val[cluster_name], 1)
    /\ cursor' = cursor + 1
    /\ UNCHANGED <<parsed_data, pc, raised, resources, diagnostics, clusters, edges>>

NodesDone ==
    /\ pc = "nodes" /\ raised = ""
    /\ cursor > Len(clusters.keys)
    /\ pc' = "resolve"
    /\ cursor' = 1
    /\ UNCHANGED <<parsed_data, raised, resources, diagnostics, clusters, nodes, edges>>

\* a variant that tests the dependent only: if resource_id in nodes
DepResolvesTargetOnly(dep, resource_id, ns) == resource_id \in DOMAIN ns

\* if dep in nodes and resource_id in nodes
DepResolves(dep, resource_id, ns) == dep \in DOMAIN ns /\ resource_id \in DOMAIN ns

\* a variant that leaves the loop at the first unresolved reference (break)
RECURSIVE ResolveDepsBreak(_, _, _, _, _)
ResolveDepsBreak(acc, resource_id, depends_on, ns, n) ==
    IF n > Len(depends_on) THEN acc
    ELSE LET dep == depends_on[n]
         IN IF dep \in DOMAIN ns /\ resource_id \in DOMAIN ns
            THEN ResolveDepsBreak([acc EXCEPT !.edges = Append(@, [from |-> dep, to |-> resource_id])],
                                  resource_id, depends_on, ns, n + 1)
            ELSE [acc EXCEPT !.diagnostics =
                     Append(@, Diag("dependency_not_found", "", resource_id, dep))]

\* for dep in depends_on; acc = [edges, diagnostics]
RECURSIVE ResolveDeps(_, _, _, _, _)
ResolveDeps(acc, resource_id, depends_on, ns, n) ==
    IF n > Len(depends_on) THEN acc
    ELSE LET dep == depends_on[n]
         IN ResolveDeps(
                IF DepResolves(dep, resource_id, ns)
                THEN [acc EXCEPT !.edges = Append(@, [from |-> dep, to |-> resource_id])]
                ELSE [acc EXCEPT !.diagnostics =
                         Append(@, Diag("dependency_not_found", "", resource_id, dep))],
                resource_id, depends_on, ns, n + 1)

\* a variant that warns unless the value is None: if depends_on is not None
WarnsUnlessNone(depends_on) == depends_on.kind # "none"

\* the warning of the else branch is printed `if depends_on`
WarnsNotList(depends_on) == Truthy(depends_on)

\* One iteration of `for resource_id, resource in resources.items()` of the
\* edge loop; resource["config"].get raises when the config is no dict.
ResolveResource ==
    /\ pc = "resolve" /\ raised = ""
    /\ cursor <= Len(resources.keys)
    /\ LET resource_id == resources.keys[cursor]
           config == resources.val[resource_id].config
           depends_on == Get(config, "depends_on", PyList(<<>>))
           acc == [edges |-> edges, diagnostics |-> diagnostics]
           out == ResolveDeps(acc, resource_id, depends_on.items, nodes, 1)
       IN IF ~IsDict(config)
          THEN /\ raised' = "AttributeError: get"
               /\ UNCHANGED <<edges, diagnostics, cursor>>
          ELSE /\ raised' = raised
               /\ cursor' = cursor + 1
               /\ IF IsList(depends_on)
                  THEN /\ edges' = out.edges
                       /\ diagnostics' = out.diagnostics
                  ELSE /\ edges' = edges
                       /\ diagnostics' =
                              IF WarnsNotList(depends_on)
                              THEN Append(diagnostics,
                                          Diag("depends_on_not_list", "", resource_id, ""))
                              ELSE diagnostics
    /\ UNCHANGED <<parsed_data, pc, resources, clusters, nodes>>

\* return output_png; the closing "Diagram generated" line is no warning and
\* is left out of `diagnostics`
ResolveDone ==
    /\ pc = "resolve" /\ raised = ""
    /\ cursor > Len(resources.keys)
    /\ pc' = "done"
    /\ cursor' = 1
    /\ UNCHANGED <<parsed_data, raised, resources, diagnostics, clusters, nodes, edges>>

Next ==
    \/ ExtractListBlock
    \/ ExtractMergedType
    \/ ExtractUnexpected
    \/ ExtractReturn
    \/ GroupResource
    \/ GroupDone
    \/ CreateClusterNodes
    \/ NodesDone
    \/ ResolveResource
    \/ ResolveDone

Spec == Init /\ [][Next]_vars

(***************************************************************************)
(* The document read declaratively: the events of a traversal in document  *)
(* order, independent of the extraction operators above.                   *)
(***************************************************************************)
RECURSIVE Concat(_)
Concat(ss) == IF ss = <<>> THEN <<>> ELSE Head(ss) \o Concat(Tail(ss))

Range(seq) == {seq[i] : i \in DOMAIN seq}

Count(seq, P(_)) == Cardinality({i \in DOMAIN seq : P(seq[i])})

RECURSIVE FirstSeen(_)
FirstSeen(seq) ==
    IF seq = <<>> THEN <<>>
    ELSE LET before == FirstSeen(SubSeq(seq, 1, Len(seq) - 1))
             x == seq[Len(seq)]
         IN IF x \in Range(before) THEN before ELSE Append(before, x)

HasResource == \E i \in DOMAIN parsed_data.items : parsed_data.items[i].k = "resource"
ResourceValue == parsed_data.items[CHOOSE i \in DOMAIN parsed_data.items :
                                       parsed_data.items[i].k = "resource"].v
ListShaped == HasResource /\ ResourceValue.kind = "list"
MergedShaped == HasResource /\ ResourceValue.kind = "dict"

TopItems == IF ListShaped \/ MergedShaped THEN ResourceValue.items ELSE <<>>

Event(ev, type, name, config) == [ev |-> ev, type |-> type, name |-> name, config |-> config]

TypeEvents(type, instances) ==
    IF instances.kind = "dict"
    THEN [i \in 1..Len(instances.items) |->
             Event("triple", type, instances.items[i].k, instances.items[i].v)]
    ELSE <<Event("bad_instances", type, "", PyNone)>>

ItemEvents(i) ==
    IF MergedShaped THEN TypeEvents(TopItems[i].k, TopItems[i].v)
    ELSE IF TopItems[i].kind = "dict"
         THEN Concat([j \in 1..Len(TopItems[i].items) |->
                         TypeEvents(TopItems[i].items[j].k, TopItems[i].items[j].v)])
         ELSE <<Event("bad_block", "", "", PyNone)>>

\* top-level items the extraction has gone through
SeenItems == IF pc = "extract" THEN cursor - 1 ELSE Len(TopItems)
Seen == Concat([i \in 1..SeenItems |-> ItemEvents(i)])
Declared == SelectSeq(Seen, LAMBDA e : e.ev = "triple")

Known(t) == t.type \in DOMAIN RESOURCE_MAP
IdOf(t) == t.type \o "." \o t.name

Keys == DOMAIN resources.val
Returned == pc # "extract"

WellFormed ==
    /\ ListShaped \/ MergedShaped
    /\ \A i \in 1..Len(TopItems) : \A j \in DOMAIN ItemEvents(i) :
          /\ ItemEvents(i)[j].ev = "triple"
          /\ ItemEvents(i)[j].config.kind = "dict"

\* resources the edge loop has gone through
ResolvedCount ==
    CASE pc = "done" -> Len(resources.keys)
      [] pc = "resolve" -> cursor - 1
      [] OTHER -> 0
Resolved == {resources.keys[i] : i \in 1..ResolvedCount}

ConfigOf(r) == resources.val[r].config
HasDependsOnOf(r) ==
    /\ ConfigOf(r).kind = "dict"
    /\ \E i \in DOMAIN ConfigOf(r).items : ConfigOf(r).items[i].k = "depends_on"
DependsOnOf(r) == ConfigOf(r).items[CHOOSE i \in DOMAIN ConfigOf(r).items :
                                      ConfigOf(r).items[i].k = "depends_on"].v
ListDeps(r) == IF HasDependsOnOf(r) /\ DependsOnOf(r).kind = "list" THEN DependsOnOf(r).items ELSE <<>>

EdgesTo(r) == SelectSeq(edges, LAMBDA e : e.to = r)
ResolverDiags(r) ==
    SelectSeq(diagnostics,
              LAMBDA d : d.id = r /\ d.kind \in {"dependency_not_found", "depends_on_not_list"})

(***************************************************************************)
(* C1: every emitted edge has both its source and its target among the     *)
(* keys of the extracted resource mapping, in every state of the run.      *)
(***************************************************************************)
NoDanglingEdges ==
    \A i \in DOMAIN edges : edges[i].from \in Keys /\ edges[i].to \in Keys

EdgeBesideDroppedReference ==
    /\ pc = "done"
    /\ edges # <<>>
    /\ \E i \in DOMAIN diagnostics : diagnostics[i].kind = "dependency_not_found"

(***************************************************************************)
(* C2: once grouping is over the clusters partition the resource mapping:  *)
(* every resource id is a member of exactly one cluster, once, that        *)
(* cluster is the resource's own category, no cluster is empty and every   *)
(* member is a key of the mapping.                                         *)
(***************************************************************************)
ClustersPartitionResources ==
    pc \in {"nodes", "resolve", "done"} =>
        /\ \A r \in Keys :
              /\ Has(clusters, resources.val[r].cluster)
              /\ \A c \in DOMAIN clusters.val :
                    Count(clusters.val[c], LAMBDA m : m = r) =
                        IF c = resources.val[r].cluster THEN 1 ELSE 0
        /\ \A c \in DOMAIN clusters.val :
              /\ clusters.val[c] # <<>>
              /\ Range(clusters.val[c]) \subseteq Keys
              /\ Count(clusters.keys, LAMBDA k : k = c) = 1
        /\ Range(clusters.keys) = DOMAIN clusters.val

GroupedAfterOverwrite ==
    /\ pc = "done"
    /\ \E i, j \in DOMAIN Declared :
          i < j /\ Known(Declared[i]) /\ IdOf(Declared[i]) = IdOf(Declared[j])
    /\ clusters.keys # <<>>

(***************************************************************************)
(* C3: for a well-formed document of either shape, extract_resources       *)
(* returns a mapping whose keys are exactly the ids type.name of the       *)
(* declared triples of registered types, each key held once, and the       *)
(* record under a key carries that type, that name and the registry's      *)
(* category of the type.                                                   *)
(***************************************************************************)
KeysAreDeclaredIds ==
    (Returned /\ WellFormed) =>
        LET D == Declared IN
        /\ \A r \in Keys : \E i \in DOMAIN D :
              /\ r = D[i].type \o "." \o D[i].name
              /\ resources.val[r].type = D[i].type
              /\ resources.val[r].name = D[i].name
              /\ resources.val[r].cluster = RESOURCE_MAP[D[i].type][2]
        /\ \A i \in DOMAIN D : Known(D[i]) => D[i].type \o "." \o D[i].name \in Keys
        /\ Range(resources.keys) = Keys
        /\ \A r \in Keys : Count(resources.keys, LAMBDA k : k = r) = 1

WellFormedMergedExtracted ==
    /\ pc = "done"
    /\ WellFormed
    /\ MergedShaped
    /\ Len(resources.keys) >= 2
    /\ \E i \in DOMAIN Declared : ~Known(Declared[i])

(***************************************************************************)
(* C4: a declared resource of a type absent from RESOURCE_MAP gets no      *)
(* record and exactly one diagnostic, and does not stop the extraction:    *)
(* of the part of the document gone through so far, every resource of a    *)
(* registered type is in the mapping, and the only exception raised in     *)
(* the extraction is raised on a value that is no mapping.                 *)
(***************************************************************************)
UnknownTypeSkipped ==
    LET D == Declared
        unknown == {i \in DOMAIN D : ~Known(D[i])}
        noMapping == SelectSeq(diagnostics, LAMBDA d : d.kind = "no_mapping")
    IN /\ \A r \in Keys : resources.val[r].type \in DOMAIN RESOURCE_MAP
       /\ \A i \in DOMAIN D : Known(D[i]) => IdOf(D[i]) \in Keys
       /\ \A i \in unknown :
             /\ IdOf(D[i]) \notin Keys
             /\ Count(noMapping, LAMBDA d : d.id = IdOf(D[i]) /\ d.type = D[i].type) =
                   Cardinality({j \in unknown : IdOf(D[j]) = IdOf(D[i])})
       /\ Len(noMapping) = Cardinality(unknown)
       /\ (pc = "extract" /\ raised # "") => TopItems[cursor].v.kind # "dict"

KnownAfterUnknownExtracted ==
    /\ pc = "done"
    /\ \E i, j \in DOMAIN Declared :
          i < j /\ ~Known(Declared[i]) /\ Known(Declared[j])

(***************************************************************************)
(* C5: the extraction and resolution passes never raise on a malformed     *)
(* shape.                                                                  *)
(***************************************************************************)
NeverRaises == raised = ""

(***************************************************************************)
(* C6 as amended: when an id is declared more than once in the resource    *)
(* list, extract_resources keeps one record under it, holding the config   *)
(* of the last occurrence in document order, and emits no diagnostic for   *)
(* the overwrite: the diagnostics of the extraction are exactly those of   *)
(* the unregistered types and the values that are no mapping.              *)
(***************************************************************************)
LastOccurrence(D, r) ==
    D[CHOOSE i \in DOMAIN D : IdOf(D[i]) = r /\ \A j \in DOMAIN D : IdOf(D[j]) = r => j <= i]

Skipped == SelectSeq(Seen, LAMBDA e : e.ev # "triple" \/ ~Known(e))

DuplicateDeclared ==
    \E i, j \in DOMAIN Declared :
        /\ i < j
        /\ Known(Declared[i])
        /\ IdOf(Declared[i]) = IdOf(Declared[j])
        /\ Declared[i].config # Declared[j].config

RECURSIVE SumLen(_)
SumLen(S) == IF S = {} THEN 0
             ELSE LET r == CHOOSE x \in S : TRUE IN Len(ListDeps(r)) + SumLen(S \ {r})

ReferencesResolvedIndependently ==
    LET done == Resolved
        notFound == SelectSeq(diagnostics, LAMBDA d : d.kind = "dependency_not_found")
    IN /\ \A r \in done : \A x \in Range(ListDeps(r)) :
             /\ Count(edges, LAMBDA e : e.from = x /\ e.to = r) =
                   IF x \in Keys THEN Count(ListDeps(r), LAMBDA y : y = x) ELSE 0
             /\ Count(notFound, LAMBDA d : d.id = r /\ d.dep = x) =
                   IF x \in Keys THEN 0 ELSE Count(ListDeps(r), LAMBDA y : y = x)
             /\ r \in Keys /\ r \in DOMAIN nodes
       /\ Len(edges) + Len(notFound) = SumLen(done)

EdgeAfterUnresolvedReference ==
    /\ pc = "done"
    /\ \E r \in Keys : \E i, j \in DOMAIN ListDeps(r) :
          /\ i < j
          /\ ListDeps(r)[i] \notin Keys
          /\ ListDeps(r)[j] \in Keys
          /\ \E n \in DOMAIN edges : edges[n] = [from |-> ListDeps(r)[j], to |-> r]

(***************************************************************************)
(* C8 as amended: for a resource gone through by the edge loop whose       *)
(* depends_on is present and no list, the resolver emits one diagnostic    *)
(* when the value is truthy and none when it is falsy (None, "", 0, an     *)
(* empty mapping), emits no edge for it in either case and goes on to the  *)
(* next resource; when the field is absent or an empty list it emits no    *)
(* edge and no diagnostic.  The only exception the edge loop raises is     *)
(* raised on a config that is no mapping.                                  *)
(***************************************************************************)
Falsy == {PyNone, PyStr(""), PyInt(0), PyDict(<<>>)}

NonListDiagnosedWhenTruthy ==
    /\ \A r \in Resolved :
          IF HasDependsOnOf(r) /\ DependsOnOf(r).kind # "list"
          THEN /\ EdgesTo(r) = <<>>
               /\ ResolverDiags(r) =
                     IF DependsOnOf(r) \in Falsy THEN <<>>
                     ELSE <<Diag("depends_on_not_list", "", r, "")>>
          ELSE ListDeps(r) = <<>> => (EdgesTo(r) = <<>> /\ ResolverDiags(r) = <<>>)
    /\ (pc = "resolve" /\ raised # "") => ConfigOf(resources.keys[cursor]).kind # "dict"

FalsyNonListThenEdge ==
    /\ pc = "done"
    /\ Len(resources.keys) = 2
    /\ HasDependsOnOf(resources.keys[1])
    /\ DependsOnOf(resources.keys[1]) \in {PyNone, PyStr(""), PyInt(0)}
    /\ EdgesTo(resources.keys[2]) # <<>>

\* C8 as first stated: every depends_on that is present and no list, the
\* falsy values included, gets a diagnostic.
NonListAlwaysDiagnosed ==
    \A r \in Resolved :
        IF HasDependsOnOf(r) /\ DependsOnOf(r).kind # "list"
        THEN /\ EdgesTo(r) = <<>>
             /\ ResolverDiags(r) = <<Diag("depends_on_not_list", "", r, "")>>
        ELSE ListDeps(r) = <<>> => (EdgesTo(r) = <<>> /\ ResolverDiags(r) = <<>>)

(***************************************************************************)
(* C9 as amended: if the 'resource' key is absent, extract_resources       *)
(* returns an empty mapping and no diagnostic; if its value is neither a   *)
(* list nor a mapping, it returns an empty mapping and one diagnostic; in  *)
(* both cases nothing is raised and the run has no cluster, no node and    *)
(* no edge.                                                                *)
(***************************************************************************)
EmptyGraph ==
    /\ raised = ""
    /\ resources = EmptyMap
    /\ clusters = EmptyMap
    /\ DOMAIN nodes = {}
    /\ edges = <<>>

AbsentSilentUnexpectedDiagnosed ==
    /\ ~HasResource => (EmptyGraph /\ diagnostics = <<>>)
    /\ (HasResource /\ ResourceValue.kind \notin {"list", "dict"}) =>
          /\ EmptyGraph
          /\ diagnostics = IF Returned THEN <<Diag("unexpected_structure", "", "", "")>>
                           ELSE <<>>

AbsentResourceCompleted == pc = "done" /\ ~HasResource

\* C9 as first stated: an absent 'resource' key yields a diagnostic too.
AbsentOrUnexpectedDiagnosed ==
    ((~HasResource \/ ResourceValue.kind \notin {"list", "dict"}) /\ pc = "done") =>
        (EmptyGraph /\ Len(diagnostics) >= 1)

(***************************************************************************)
(* C10: the result is a function of the document alone, in a fixed order:  *)
(* resources are keyed in the order their ids are first declared, clusters *)
(* appear in the order their category is first seen in the resource        *)
(* mapping, the members of a cluster and the edges follow the order of the *)
(* resource mapping, the edges of one resource the order of its depends_on *)
(* list, and the diagnostics the order of the traversal.                   *)
(***************************************************************************)
ExpectedEdges(r) ==
    LET found == SelectSeq(ListDeps(r), LAMBDA x : x \in Keys)
    IN [i \in 1..Len(found) |-> [from |-> found[i], to |-> r]]

ExpectedResolverDiags(r) ==
    IF HasDependsOnOf(r) /\ DependsOnOf(r).kind # "list"
    THEN IF DependsOnOf(r) \in Falsy THEN <<>> ELSE <<Diag("depends_on_not_list", "", r, "")>>
    ELSE LET lost == SelectSeq(ListDeps(r), LAMBDA x : x \notin Keys)
         IN [i \in 1..Len(lost) |-> Diag("dependency_not_found", "", r, lost[i])]

ExpectedExtractDiags ==
    LET skipped == Skipped
    IN [i \in 1..Len(skipped) |->
           CASE skipped[i].ev = "bad_block" -> Diag("block_not_dict", "", "", "")
             [] skipped[i].ev = "bad_instances" ->
                    Diag("instances_not_dict", skipped[i].type, "", "")
             [] OTHER -> Diag("no_mapping", skipped[i].type, IdOf(skipped[i]), "")]
       \o IF Returned /\ HasResource /\ ResourceValue.kind \notin {"list", "dict"}
          THEN <<Diag("unexpected_structure", "", "", "")>>
          ELSE <<>>

OrderFollowsDocument ==
    LET D == Declared
        knownIds == [i \in 1..Len(SelectSeq(D, Known)) |-> IdOf(SelectSeq(D, Known)[i])]
        categories == [i \in 1..Len(resources.keys) |-> resources.val[resources.keys[i]].cluster]
    IN /\ resources.keys = FirstSeen(knownIds)
       /\ pc \in {"nodes", "resolve", "done"} =>
             /\ clusters.keys = FirstSeen(categories)
             /\ \A c \in DOMAIN clusters.val :
                   clusters.val[c] =
                       SelectSeq(resources.keys, LAMBDA r : resources.val[r].cluster = c)
       /\ edges = Concat([i \in 1..ResolvedCount |-> ExpectedEdges(resources.keys[i])])
       /\ diagnostics =
             ExpectedExtractDiags
             \o Concat([i \in 1..ResolvedCount |-> ExpectedResolverDiags(resources.keys[i])])

TwoClustersTwoEdges ==
    /\ pc = "done"
    /\ Len(clusters.keys) = 2
    /\ Len(edges) >= 2
    /\ edges[1].to # edges[2].to
====
